---- MODULE Spec2Model ----
(***************************************************************************)
(* TensegritySim: the structure aggregate (data_structures.py) and the     *)
(* equilibrium solver (tensegrity_solver.py) as a state machine.           *)
(*                                                                         *)
(* Real coordinates, lengths and forces are integers here (one unit of the *)
(* grid); a Euclidean norm is the integer square root of the squared       *)
(* distance.  The root-finder (scipy.optimize.root) is outside the         *)
(* repository: each invocation either converges, to any vector of the      *)
(* right length, or fails.                                                 *)
(***************************************************************************)
EXTENDS Integers, Sequences, FiniteSets, TLC

\* ------------------------------------------------------------------------
\* Bounds of the model
\* ------------------------------------------------------------------------
\* largest coordinate the root-finder returns
MaxCoord == 1

\* how far a control's rest length may drift from its starting length
MaxDrift == 1

\* most linked pairs of a surface in the DOF-elimination specification
MaxPairs == 2

Vals == 0..MaxCoord

\* the perturbation added to one component of the guess on the retry
NoiseVals == {-1, 1}

\* one control-length delta
DeltaVals == {-1, 0, 1}

\* ------------------------------------------------------------------------
\* Helpers on sequences and numbers
\* ------------------------------------------------------------------------
Abs(a) == IF a < 0 THEN -a ELSE a

Max(a, b) == IF a >= b THEN a ELSE b

Range(s) == {s[i] : i \in 1..Len(s)}

\* all sequences over S of length 0..n
SeqsUpTo(S, n) == UNION {[1..k -> S] : k \in 0..n}

RECURSIVE SumSeq(_)
SumSeq(s) == IF s = <<>> THEN 0 ELSE s[1] + SumSeq(Tail(s))

RECURSIVE Flatten(_)
Flatten(ss) == IF ss = <<>> THEN <<>> ELSE ss[1] \o Flatten(Tail(ss))

\* integer square root: the largest r with r*r <= s
ISqrt(s) == CHOOSE r \in 0..s : r * r <= s /\ (r + 1) * (r + 1) > s

\* np.linalg.norm(p - q) on the grid
Norm(p, q) == ISqrt(SumSeq([i \in 1..Len(p) |-> (p[i] - q[i]) * (p[i] - q[i])]))

\* ------------------------------------------------------------------------
\* State
\* ------------------------------------------------------------------------
VARIABLES
    nodes,                      \* Tensegrity.nodes: sequence of [name, position]
    connections,                \* Tensegrity.connections: sequence of Connection records
    pins,                       \* Tensegrity.pins: dict in insertion order, sequence of [node, bools]
    controls,                   \* Tensegrity.controls: indices into connections, in registration order
    control_starting_lengths,   \* Tensegrity.control_starting_lengths
    surface,                    \* Tensegrity.surface: [present, surface_type, radius, linked_nodes]
    tdim,                       \* Tensegrity.dim: "2", "2.5" or "3"
    dim,                        \* TensegritySolver.dim
    forces,                     \* TensegritySolver.forces
    lastOp,                     \* the operation that ran last
    args,                       \* its arguments
    raised,                     \* the exception it raised, "" if it returned
    ret,                        \* the value it returned
    stdout,                     \* what it printed
    rootCalls,                  \* the root-finder invocations of the last solve()
    calc                        \* results of the solver's internal functions (SpecDof)

vars == <<nodes, connections, pins, controls, control_starting_lengths, surface,
          tdim, dim, forces, lastOp, args, raised, ret, stdout, rootCalls, calc>>

None == "None"

NoCalc == [done |-> FALSE, x0 |-> <<>>, lengths |-> <<>>,
           energy |-> <<>>, dl |-> <<>>, derivative |-> <<>>,
           expansion |-> [err |-> "", N |-> <<>>],
           objective |-> [err |-> "", work |-> <<>>, coupled |-> <<>>, del |-> {},
                          rows |-> <<>>, constraints |-> <<>>, v |-> <<>>]]

\* ------------------------------------------------------------------------
\* data_structures.py
\* ------------------------------------------------------------------------
\* TensegritySolver.node_indices: name -> 0-based index in Tensegrity.nodes
node_indices(name) == (CHOOSE i \in 1..Len(nodes) : nodes[i].name = name) - 1

\* the position of the node called name
PositionOf(ns, name) == ns[CHOOSE i \in 1..Len(ns) : ns[i].name = name].position

\* a pair found only in the order it was registered in
InLinked_ordered(linked_nodes, n1, n2) ==
    \E k \in 1..Len(linked_nodes) : linked_nodes[k] = <<n1, n2>>

\* {node1, node2} in linked_nodes: the entries are two-element sets
InLinked(linked_nodes, n1, n2) ==
    \E k \in 1..Len(linked_nodes) : {linked_nodes[k][1], linked_nodes[k][2]} = {n1, n2}

\* Connection.current_length(linked_nodes) over the node list ns
current_length(ns, connection, linked_nodes) ==
    SumSeq([i \in 1..(Len(connection.nodes) - 1) |->
        IF InLinked(linked_nodes, connection.nodes[i], connection.nodes[i + 1])
        THEN 0
        ELSE Norm(PositionOf(ns, connection.nodes[i]),
                  PositionOf(ns, connection.nodes[i + 1]))])

\* the clamp of a string left out
update_force_unclamped(connection, length) ==
    connection.stiffness * (length - connection.initial_length)

\* a bar clamped like a string
update_force_clampAll(connection, length) ==
    Max(0, connection.stiffness * (length - connection.initial_length))

\* the new force added to the stored one
update_force_accumulate(connection, length) ==
    connection.force
        + (IF connection.connection_type = "STRING"
           THEN Max(0, connection.stiffness * (length - connection.initial_length))
           ELSE connection.stiffness * (length - connection.initial_length))

\* Connection.update_force(current_length): the force it stores
update_force(connection, length) ==
    LET force == connection.stiffness * (length - connection.initial_length)
    IN  IF connection.connection_type = "STRING" THEN Max(0, force) ELSE force

\* Node.copy(): a new node with a copy of the position
copy(node) == [name |-> node.name, position |-> node.position]

\* line 58: the snapshot of the nodes of a chain
Snapshot(ns, chain) ==
    [i \in 1..Len(chain) |->
        copy(ns[CHOOSE n \in 1..Len(ns) : ns[n].name = chain[i]])]

\* the snapshot sharing the live nodes: it follows them
update_forces_resnapshot(ns, cs, surf) ==
    [c \in 1..Len(cs) |->
        [cs[c] EXCEPT
            !.nodes_original = Snapshot(ns, cs[c].nodes),
            !.force =
                update_force(cs[c],
                    current_length(ns, cs[c],
                        IF surf.present THEN surf.linked_nodes ELSE <<>>))]]

\* Tensegrity.update_forces() over node list ns and connection list cs
update_forces(ns, cs, surf) ==
    [c \in 1..Len(cs) |->
        [cs[c] EXCEPT !.force =
            update_force(cs[c],
                current_length(ns, cs[c],
                    IF surf.present THEN surf.linked_nodes ELSE <<>>))]]

\* a 2-component node looked at before the surface
InferDim_nodesFirst(ns, surf) ==
    IF \E i \in 1..Len(ns) : Len(ns[i].position) = 2 THEN "2"
    ELSE IF surf.present THEN "2.5"
    ELSE "3"

\* Tensegrity.__init__: the inferred dimensionality
InferDim(ns, surf) ==
    IF surf.present THEN "2.5"
    ELSE IF \E i \in 1..Len(ns) : Len(ns[i].position) = 2 THEN "2"
    ELSE "3"

\* TensegritySolver.__init__: the solver's dim
SolverDim(td) == IF td = "3" THEN 3 ELSE 2

\* ------------------------------------------------------------------------
\* tensegrity_solver.py: unknown vector and expansion
\* ------------------------------------------------------------------------
\* the (index, value) entries of the pinned coordinates, in the order the code
\* visits them: pins.items() in insertion order, then the axes 0..dim-1
RECURSIVE PinnedEntries(_)
PinnedEntries(ps) ==
    IF ps = <<>> THEN <<>>
    ELSE LET index == node_indices(ps[1].node) * dim
             all == [i \in 1..dim |->
                        [index |-> index + (i - 1),
                         value |-> nodes[node_indices(ps[1].node) + 1].position[i],
                         fixed |-> ps[1].bools[i]]]
         IN  SelectSeq(all, LAMBDA e : e.fixed) \o PinnedEntries(Tail(ps))

\* the flat indices of the pinned coordinates
PinnedIndices == {e.index : e \in Range(PinnedEntries(pins))}

\* np.delete(v, indices): the entries of v whose 0-based index is not in indices
NpDelete(v, indices) ==
    LET Keep(i) == (i - 1) \notin indices
        RECURSIVE Build(_)
        Build(i) == IF i > Len(v) THEN <<>>
                    ELSE (IF Keep(i) THEN <<v[i]>> ELSE <<>>) \o Build(i + 1)
    IN  Build(1)

\* np.insert(x, index, value): IndexError when index is beyond the end of x
NpInsert(x, index, value) ==
    IF index > Len(x) THEN [err |-> "IndexError", v |-> x]
    ELSE [err |-> "",
          v |-> SubSeq(x, 1, index) \o <<value>> \o SubSeq(x, index + 1, Len(x))]

\* the loop `for index, value in ins_index.items(): x = np.insert(x, index, value)`
RECURSIVE InsertAll(_, _)
InsertAll(x, entries) ==
    IF entries = <<>> THEN [err |-> "", v |-> x]
    ELSE LET r == NpInsert(x, entries[1].index, entries[1].value)
         IN  IF r.err # "" THEN r ELSE InsertAll(r.v, Tail(entries))

\* x.reshape(-1, d)
Reshape(x, d) ==
    IF Len(x) % d # 0 THEN [err |-> "ValueError", N |-> <<>>]
    ELSE [err |-> "",
          N |-> [r \in 1..(Len(x) \div d) |-> SubSeq(x, (r - 1) * d + 1, r * d)]]

\* TensegritySolver._create_initial_guess
_create_initial_guess ==
    NpDelete(Flatten([n \in 1..Len(nodes) |-> SubSeq(nodes[n].position, 1, dim)]),
             PinnedIndices)

\* TensegritySolver._get_nodes_from_input
_get_nodes_from_input(x) ==
    LET r == InsertAll(x, PinnedEntries(pins))
    IN  IF r.err # "" THEN [err |-> r.err, N |-> <<>>] ELSE Reshape(r.v, dim)

\* ------------------------------------------------------------------------
\* tensegrity_solver.py: the objective
\* Derivatives and virtual work are in tenths of a unit.
\* ------------------------------------------------------------------------
\* a / b rounded towards zero
Quot(a, b) == IF a >= 0 THEN a \div b ELSE -((-a) \div b)

\* TensegritySolver._node_distance over the expanded positions N
_node_distance(node1, node2, N) ==
    IF surface.present /\ InLinked(surface.linked_nodes, node1, node2)
    THEN 0
    ELSE Norm(N[node_indices(node1) + 1], N[node_indices(node2) + 1])

\* TensegritySolver._connection_length
_connection_length(connection, N) ==
    SumSeq([i \in 1..(Len(connection.nodes) - 1) |->
        _node_distance(connection.nodes[i], connection.nodes[i + 1], N)])

\* v[index*dim : index*dim + dim] += w
AddSlice(v, index, w) ==
    [k \in 1..Len(v) |->
        IF k - 1 >= index * dim /\ k - 1 < index * dim + dim
        THEN v[k] + w[k - index * dim]
        ELSE v[k]]

\* the loop of _length_derivative over the segments i..n-1 of the chain
RECURSIVE LengthDerivativeFrom(_, _, _, _)
LengthDerivativeFrom(dl, connection, N, i) ==
    IF i > Len(connection.nodes) - 1 THEN dl
    ELSE LET N1_index == node_indices(connection.nodes[i])
             N2_index == node_indices(connection.nodes[i + 1])
             N1 == N[N1_index + 1]
             N2 == N[N2_index + 1]
             length == _node_distance(connection.nodes[i], connection.nodes[i + 1], N)
         IN  IF length = 0
             THEN LengthDerivativeFrom(dl, connection, N, i + 1)
             ELSE LengthDerivativeFrom(
                     AddSlice(
                         AddSlice(dl, N1_index,
                             [j \in 1..dim |-> Quot(10 * (N1[j] - N2[j]), length)]),
                         N2_index,
                         [j \in 1..dim |-> Quot(10 * (N2[j] - N1[j]), length)]),
                     connection, N, i + 1)

\* a segment that joins a linked pair counted with the distance of its nodes
_length_derivative_linkedCounted(connection, N) ==
    LET RECURSIVE From(_, _)
        From(dl, i) ==
            IF i > Len(connection.nodes) - 1 THEN dl
            ELSE LET N1_index == node_indices(connection.nodes[i])
                     N2_index == node_indices(connection.nodes[i + 1])
                     N1 == N[N1_index + 1]
                     N2 == N[N2_index + 1]
                     length == Norm(N1, N2)
                 IN  IF length = 0 THEN From(dl, i + 1)
                     ELSE From(
                            AddSlice(
                                AddSlice(dl, N1_index,
                                    [j \in 1..dim |-> Quot(10 * (N1[j] - N2[j]), length)]),
                                N2_index,
                                [j \in 1..dim |-> Quot(10 * (N2[j] - N1[j]), length)]),
                            i + 1)
    IN  From([k \in 1..(dim * Len(nodes)) |-> 0], 1)

\* TensegritySolver._length_derivative
_length_derivative(connection, N) ==
    LengthDerivativeFrom([k \in 1..(dim * Len(nodes)) |-> 0], connection, N, 1)

\* a slack string storing energy like a bar
_spring_connection_energy_noSlack(connection, N) ==
    connection.stiffness
        * (_connection_length(connection, N) - connection.initial_length)
        * (_connection_length(connection, N) - connection.initial_length)

\* TensegritySolver._spring_connection_energy, in halves of a unit:
\* k * (length - initial_length)^2 is twice the energy
_spring_connection_energy(connection, N) ==
    LET length == _connection_length(connection, N)
    IN  IF connection.connection_type = "STRING" /\ length < connection.initial_length
        THEN 0
        ELSE connection.stiffness * (length - connection.initial_length)
                                  * (length - connection.initial_length)

\* the coefficient with the sign of the force
_spring_connection_energy_derivative_signFlipped(connection, N) ==
    LET length == _connection_length(connection, N)
        dl == _length_derivative(connection, N)
    IN  IF connection.connection_type = "STRING" /\ length < connection.initial_length
        THEN [k \in 1..(dim * Len(nodes)) |-> 0]
        ELSE [k \in 1..(dim * Len(nodes)) |->
                 connection.stiffness * (length - connection.initial_length) * dl[k]]

\* TensegritySolver._spring_connection_energy_derivative
_spring_connection_energy_derivative(connection, N) ==
    LET length == _connection_length(connection, N)
        C == -connection.stiffness * (length - connection.initial_length)
        dl == _length_derivative(connection, N)
    IN  IF connection.connection_type = "STRING" /\ length < connection.initial_length
        THEN [k \in 1..(dim * Len(nodes)) |-> 0]
        ELSE [k \in 1..(dim * Len(nodes)) |-> C * dl[k]]

\* lines 113-120: the virtual work of the connections c..n plus the external forces
RECURSIVE VirtualWorkFrom(_, _)
VirtualWorkFrom(N, c) ==
    IF c > Len(connections) THEN [k \in 1..(dim * Len(nodes)) |-> 10 * forces[k]]
    ELSE LET d == _spring_connection_energy_derivative(connections[c], N)
             rest == VirtualWorkFrom(N, c + 1)
         IN  [k \in 1..(dim * Len(nodes)) |-> d[k] + rest[k]]

\* node1's value added into node2's row and node1's row removed
Couple_intoNode2(w, node1, node2, axis) ==
    LET i1 == node_indices(node1) * dim + axis
        i2 == node_indices(node2) * dim + axis
    IN  IF i1 \in w.del THEN [w EXCEPT !.del = @ \cup {i2}]
        ELSE IF i2 \in w.del THEN [w EXCEPT !.del = @ \cup {i1}]
        ELSE [vw |-> [w.vw EXCEPT ![i2 + 1] = @ + w.vw[i1 + 1]],
              del |-> w.del \cup {i1}]

\* lines 131-142 and 144-151: one linked pair, one axis; w is [vw, del]
Couple(w, node1, node2, axis) ==
    LET i1 == node_indices(node1) * dim + axis
        i2 == node_indices(node2) * dim + axis
    IN  IF i1 \in w.del THEN [w EXCEPT !.del = @ \cup {i2}]
        ELSE IF i2 \in w.del THEN [w EXCEPT !.del = @ \cup {i1}]
        ELSE [vw |-> [w.vw EXCEPT ![i1 + 1] = @ + w.vw[i2 + 1]],
              del |-> w.del \cup {i2}]

\* lines 130-151: the loop over the linked pairs k..n
RECURSIVE CoupleFrom(_, _)
CoupleFrom(w, k) ==
    IF k > Len(surface.linked_nodes) THEN w
    ELSE LET node1 == surface.linked_nodes[k][1]
             node2 == surface.linked_nodes[k][2]
         IN  CoupleFrom(Couple(Couple(w, node1, node2, 0), node1, node2, 1), k + 1)

\* 2*pi*r, with 355/113 for pi
Circumference(r) == (710 * r) \div 113

\* TensegritySolver._surface_constraints, for the expanded positions N
_surface_constraints(N) ==
    IF surface.surface_type = "cylinder"
    THEN Flatten([k \in 1..Len(surface.linked_nodes) |->
            LET N1 == N[node_indices(surface.linked_nodes[k][1]) + 1]
                N2 == N[node_indices(surface.linked_nodes[k][2]) + 1]
            IN  <<N1[2] - N2[2], Abs(N1[1] - N2[1]) - Circumference(surface.radius)>>])
    ELSE <<>>

\* TensegritySolver._objective: the residual v and its two parts, with the
\* virtual work before and after the coupling and the rows deleted
_objective(x) ==
    LET e == _get_nodes_from_input(x)
        pinned == [vw |-> VirtualWorkFrom(e.N, 1), del |-> PinnedIndices]
        w == IF surface.present THEN CoupleFrom(pinned, 1) ELSE pinned
        rows == NpDelete(w.vw, w.del)
        constraints == IF surface.present THEN _surface_constraints(e.N) ELSE <<>>
    IN  IF e.err # ""
        THEN [err |-> e.err, work |-> <<>>, coupled |-> <<>>, del |-> {},
              rows |-> <<>>, constraints |-> <<>>, v |-> <<>>]
        ELSE [err |-> "", work |-> pinned.vw, coupled |-> w.vw, del |-> w.del,
              rows |-> rows, constraints |-> constraints, v |-> rows \o constraints]

\* ------------------------------------------------------------------------
\* tensegrity_solver.py: solve
\* ------------------------------------------------------------------------
\* what scipy.optimize.root may return for an unknown vector of length m: any
\* vector with success, and one vector with failure (solve only prints it)
RootResults(m) ==
    [success : {TRUE}, x : [1..m -> Vals]]
        \cup {[success |-> FALSE, x |-> [i \in 1..m |-> MaxCoord]]}

\* line 76: the retry runs when the first attempt did not converge
Retries(r1) == ~r1.success

\* the retry started from the failed result instead of the initial guess
PerturbedGuess_fromResult(x0, r1, noise) == [i \in 1..Len(x0) |-> r1.x[i] + noise[i]]

\* line 81: the initial guess of the retry
PerturbedGuess(x0, r1, noise) == [i \in 1..Len(x0) |-> x0[i] + noise[i]]

\* the early return of line 87 left out
Commits_always(r1, r2) == TRUE

\* lines 76-87: solve goes on to line 89 unless both attempts failed
Commits(r1, r2) == r1.success \/ r2.success

\* the rows written to the nodes in reverse order, names included
WriteBack_reversed(x) ==
    LET N == _get_nodes_from_input(x).N
    IN  [i \in 1..Len(nodes) |->
            [name |-> nodes[Len(nodes) + 1 - i].name, position |-> N[i]]]

\* lines 89-93: the nodes after the solution x is written back
WriteBack(x) ==
    LET N == _get_nodes_from_input(x).N
    IN  [i \in 1..Len(nodes) |-> [nodes[i] EXCEPT !.position = N[i]]]

\* update_forces() called before the positions are written
ForcesAfterSolve_beforeWrite(x) == update_forces(nodes, connections, surface)

\* line 95: the connections after the solution x is committed
ForcesAfterSolve(x) == update_forces(WriteBack(x), connections, surface)

\* lines 77-79 and 85-86: the diagnostic output
FirstFailureOutput == <<"result", "Optimization failed.",
                        "Retrying with perturbed initial guess.">>

\* the second failure reported like the first
SecondFailureOutput_likeFirst == <<"result", "Optimization failed.">>

SecondFailureOutput == <<"result", "Optimization failed again.">>

\* one invocation root(self._objective, x0) that returned r; the vector of a
\* failed result is printed, not kept
RootCall(x0, r) ==
    [x0 |-> x0, result |-> IF r.success THEN "success" ELSE "failure",
     x |-> IF r.success THEN r.x ELSE <<>>]

\* the last root-finder invocation of calls converged
Converged(calls) == calls # <<>> /\ calls[Len(calls)].result = "success"

\* the end of solve: r2 is the last result, calls the root-finder invocations
SolveEnd(r1, r2, calls, out) ==
    /\ rootCalls' = calls
    /\ raised' = ""
    /\ ret' = None
    /\ IF Commits(r1, r2)
       THEN /\ nodes' = WriteBack(r2.x)
            /\ connections' = ForcesAfterSolve(r2.x)
            /\ stdout' = out
       ELSE /\ UNCHANGED <<nodes, connections>>
            /\ stdout' = out \o SecondFailureOutput

Solve ==
    \E x0 \in {_create_initial_guess} :
        /\ Len(x0) > 0
        /\ lastOp' = "solve"
        /\ args' = <<>>
        /\ UNCHANGED <<pins, controls, control_starting_lengths, surface, tdim, dim,
                       forces, calc>>
        /\ IF _get_nodes_from_input(x0).err # ""
           THEN \* the first evaluation of the objective raises inside root()
                /\ rootCalls' = <<[x0 |-> x0, result |-> "raised", x |-> <<>>]>>
                /\ raised' = _get_nodes_from_input(x0).err
                /\ ret' = None
                /\ stdout' = <<>>
                /\ UNCHANGED <<nodes, connections>>
           ELSE \E r1 \in RootResults(Len(x0)) :
                IF ~Retries(r1)
                THEN SolveEnd(r1, r1, <<RootCall(x0, r1)>>,
                              IF r1.success THEN <<>> ELSE FirstFailureOutput)
                ELSE \E noise \in [1..Len(x0) -> NoiseVals] :
                     \E r2 \in RootResults(Len(x0)) :
                        SolveEnd(r1, r2,
                            <<RootCall(x0, r1),
                              RootCall(PerturbedGuess(x0, r1, noise), r2)>>,
                            FirstFailureOutput)

\* ------------------------------------------------------------------------
\* tensegrity_solver.py: set_forces
\* ------------------------------------------------------------------------
\* the vector of the earlier calls kept
ZeroForces_keep == forces

\* line 50: np.zeros(dim * len(nodes))
ZeroForces == [k \in 1..(dim * Len(nodes)) |-> 0]

\* only a force with too few components rejected
DimMismatch_tooShort(force) == Len(force) < dim

\* line 53: the force has another number of components than the solver's dim
DimMismatch(force) == Len(force) # dim

\* line 57: f[index*dim : index*dim + dim] = force
SetSlice(f, index, force) ==
    [k \in 1..Len(f) |->
        IF k - 1 >= index * dim /\ k - 1 < index * dim + dim
        THEN force[k - index * dim]
        ELSE f[k]]

\* lines 52-57: the loop over the entries i..n of the mapping, in its order;
\* f is the vector written so far
RECURSIVE SetForcesFrom(_, _, _)
SetForcesFrom(f, m, i) ==
    IF i > Len(m) THEN [err |-> "", forces |-> f]
    ELSE IF DimMismatch(m[i].force) THEN [err |-> "ValueError", forces |-> f]
    ELSE SetForcesFrom(SetSlice(f, node_indices(m[i].node), m[i].force), m, i + 1)

\* TensegritySolver.set_forces(m): the exception and the vector it leaves
set_forces(m) == SetForcesFrom(ZeroForces, m, 1)

\* the force vectors of a mapping: one of two and one of three components
ForceVecs == {<<1, 2>>, <<1, 2, 3>>}

\* the nodes a mapping names
ForceNames == {"A", "C"}

\* the mappings node name -> force, as their entries in insertion order
ForceArgs ==
    {m \in SeqsUpTo([node : ForceNames, force : ForceVecs], 2) :
        \A i, j \in 1..Len(m) : i # j => m[i].node # m[j].node}

SetForces ==
    \E m \in ForceArgs :
        /\ lastOp' = "set_forces"
        /\ args' = m
        /\ raised' = set_forces(m).err
        /\ forces' = set_forces(m).forces
        /\ ret' = None
        /\ stdout' = <<>>
        /\ rootCalls' = <<>>
        /\ UNCHANGED <<nodes, connections, pins, controls, control_starting_lengths,
                       surface, tdim, dim, calc>>

\* ------------------------------------------------------------------------
\* data_structures.py: operations of the Tensegrity
\* ------------------------------------------------------------------------
\* delta i added to connection i instead of control i
RECURSIVE AddDeltas_byConnection(_, _, _)
AddDeltas_byConnection(cs, deltas, i) ==
    IF i > Len(deltas) THEN cs
    ELSE AddDeltas_byConnection([cs EXCEPT ![i].initial_length = @ + deltas[i]],
                                deltas, i + 1)

\* the forces refreshed after the rest lengths are changed
RECURSIVE AddDeltas_thenUpdate(_, _, _)
AddDeltas_thenUpdate(cs, deltas, i) ==
    IF i > Len(deltas) THEN update_forces(nodes, cs, surface)
    ELSE AddDeltas_thenUpdate([cs EXCEPT ![controls[i]].initial_length = @ + deltas[i]],
                              deltas, i + 1)

\* the loop of change_control_lengths over the deltas i..n
RECURSIVE AddDeltas(_, _, _)
AddDeltas(cs, deltas, i) ==
    IF i > Len(deltas) THEN cs
    ELSE AddDeltas([cs EXCEPT ![controls[i]].initial_length = @ + deltas[i]],
                   deltas, i + 1)

\* only too many deltas rejected
CountMismatch_tooMany(deltas) == Len(deltas) > Len(controls)

\* line 203: the argument count is checked before anything is changed
CountMismatch(deltas) == Len(deltas) # Len(controls)

\* the rest lengths stay within the modelled range: the controls' distances
\* from their starting lengths add up to MaxDrift at most
WithinDrift(cs) ==
    SumSeq([i \in 1..Len(controls) |->
        Abs(cs[controls[i]].initial_length - control_starting_lengths[i])]) <= MaxDrift

\* the argument lists of change_control_lengths: every list of one delta per
\* control, and lists of another length (their values are not looked at)
DeltaArgs ==
    [1..Len(controls) -> DeltaVals]
        \cup {[i \in 1..k |-> 1] : k \in (0..(Len(controls) + 1)) \ {Len(controls)}}

ChangeControlLengths ==
    \E deltas \in DeltaArgs :
        /\ lastOp' = "change_control_lengths"
        /\ args' = deltas
        /\ ret' = None
        /\ stdout' = <<>>
        /\ rootCalls' = <<>>
        /\ UNCHANGED <<nodes, pins, controls, control_starting_lengths, surface,
                       tdim, dim, forces, calc>>
        /\ IF CountMismatch(deltas)
           THEN /\ raised' = "ValueError"
                /\ UNCHANGED connections
           ELSE /\ raised' = ""
                /\ WithinDrift(AddDeltas(connections, deltas, 1))
                /\ connections' = AddDeltas(connections, deltas, 1)

\* the last control left out of the reset
RECURSIVE ResetFrom_butLast(_, _)
ResetFrom_butLast(cs, i) ==
    IF i > Len(controls) - 1 THEN cs
    ELSE ResetFrom_butLast([cs EXCEPT ![controls[i]].initial_length =
                                          control_starting_lengths[i]], i + 1)

\* the loop of reset_control_lengths over the controls i..n
RECURSIVE ResetFrom(_, _)
ResetFrom(cs, i) ==
    IF i > Len(controls) THEN cs
    ELSE ResetFrom([cs EXCEPT ![controls[i]].initial_length =
                                    control_starting_lengths[i]], i + 1)

ResetControlLengths ==
    /\ lastOp' = "reset_control_lengths"
    /\ args' = <<>>
    /\ raised' = ""
    /\ ret' = None
    /\ stdout' = <<>>
    /\ rootCalls' = <<>>
    /\ connections' = ResetFrom(connections, 1)
    /\ UNCHANGED <<nodes, pins, controls, control_starting_lengths, surface,
                   tdim, dim, forces, calc>>

\* a direct call of Tensegrity.update_forces()
UpdateForces ==
    /\ lastOp' = "update_forces"
    /\ args' = <<>>
    /\ raised' = ""
    /\ ret' = None
    /\ stdout' = <<>>
    /\ rootCalls' = <<>>
    /\ connections' = update_forces(nodes, connections, surface)
    /\ UNCHANGED <<nodes, pins, controls, control_starting_lengths, surface,
                   tdim, dim, forces, calc>>

\* ------------------------------------------------------------------------
\* The structure the operations run on
\* ------------------------------------------------------------------------
\* Node(name, position)
Node(name, position) == [name |-> name, position |-> position]

\* Connection(nodes, connection_type, stiffness): the rest length defaults to
\* the current length, no force is stored yet
Connection(ns, chain, connection_type, stiffness) ==
    LET c == [nodes |-> chain, nodes_original |-> Snapshot(ns, chain),
              connection_type |-> connection_type,
              stiffness |-> stiffness, initial_length |-> 0, force |-> 0]
    IN  [c EXCEPT !.initial_length = current_length(ns, c, <<>>)]

NoSurface == [present |-> FALSE, surface_type |-> "", radius |-> 0,
              linked_nodes |-> <<>>]

\* Surface(shape, linked_nodes) for a cylinder
Cylinder(radius, linked_nodes) ==
    [present |-> TRUE, surface_type |-> "cylinder", radius |-> radius,
     linked_nodes |-> linked_nodes]

TT == <<TRUE, TRUE>>

InitNodes == <<Node("A", <<0, 0>>), Node("B", <<2, 0>>), Node("C", <<1, 2>>)>>

InitConnections ==
    <<Connection(InitNodes, <<"A", "B", "C">>, "STRING", 1),
      Connection(InitNodes, <<"A", "C">>, "BAR", 2),
      Connection(InitNodes, <<"B", "C">>, "STRING", 1)>>

\* the controls, in registration order: the bar, then the string chain
InitControls == <<2, 1>>

\* the pin maps of the structure, in the insertion order of the mapping
Pin(node, bools) == [node |-> node, bools |-> bools]

\* A and B fixed, C free
PinsAB == <<Pin("A", TT), Pin("B", TT)>>

\* the same pins, B listed before A
PinsBA == <<Pin("B", TT), Pin("A", TT)>>

\* B free, C listed before A
PinsCA == <<Pin("C", TT), Pin("A", TT)>>

\* only the y of C free
PinsABCx == <<Pin("A", TT), Pin("B", TT), Pin("C", <<TRUE, FALSE>>)>>

\* only the x of B free
PinsAByC == <<Pin("A", TT), Pin("B", <<FALSE, TRUE>>), Pin("C", TT)>>

\* the seam of the cylinder joins B and C
Seam == Cylinder(1, << <<"B", "C">> >>)

TTT == <<TRUE, TRUE, TRUE>>

\* the same structure with three coordinates per node
SpatialNodes ==
    <<Node("A", <<0, 0, 0>>), Node("B", <<2, 0, 0>>), Node("C", <<1, 2, 1>>)>>

SpatialConnections ==
    <<Connection(SpatialNodes, <<"A", "B", "C">>, "STRING", 1),
      Connection(SpatialNodes, <<"A", "C">>, "BAR", 2),
      Connection(SpatialNodes, <<"B", "C">>, "STRING", 1)>>

\* only the z of C free
PinsSpatial == <<Pin("A", TTT), Pin("B", TTT), Pin("C", <<TRUE, TRUE, FALSE>>)>>

\* the pin map and the surface of the structure the driver loop runs on
InitConfigs ==
    { <<PinsAByC, NoSurface>>,
      <<PinsCA, NoSurface>>,
      <<PinsABCx, Seam>> }

\* the pin map and the surface of the structures that are only solved
SolveConfigs ==
    { <<PinsAB, NoSurface>>,
      <<PinsBA, NoSurface>>,
      <<PinsCA, NoSurface>>,
      <<PinsAB, Seam>>,
      <<PinsABCx, Seam>> }

\* Tensegrity(nodes, connections, pins, controls, surface) followed by
\* TensegritySolver(tensegrity)
Construct(ns, cs, ps, ctl, surf) ==
    /\ nodes = ns
    /\ connections = update_forces(ns, cs, surf)
    /\ pins = ps
    /\ controls = ctl
    /\ control_starting_lengths = [i \in 1..Len(ctl) |-> cs[ctl[i]].initial_length]
    /\ surface = surf
    /\ tdim = InferDim(ns, surf)
    /\ dim = SolverDim(InferDim(ns, surf))
    /\ forces = [i \in 1..(SolverDim(InferDim(ns, surf)) * Len(ns)) |-> 0]

\* nothing has been called yet
NoCall ==
    /\ lastOp = "init"
    /\ args = <<>>
    /\ raised = ""
    /\ ret = None
    /\ stdout = <<>>
    /\ rootCalls = <<>>
    /\ calc = NoCalc

\* a flat structure, with or without a cylinder, or the spatial one, which
\* has no controls
Init ==
    /\ \/ \E cfg \in InitConfigs :
              Construct(InitNodes, InitConnections, cfg[1], InitControls, cfg[2])
       \/ Construct(SpatialNodes, SpatialConnections, PinsSpatial, <<>>, NoSurface)
    /\ NoCall

Next ==
    \/ Solve
    \/ SetForces
    \/ ChangeControlLengths
    \/ ResetControlLengths
    \/ UpdateForces

Spec == Init /\ [][Next]_vars

\* ------------------------------------------------------------------------
\* The solver's internal functions on every pin map and seam
\* ------------------------------------------------------------------------
Names == <<"A", "B", "C">>

\* three nodes of d components whose coordinates are all different
DofNodes(d) == [n \in 1..3 |-> Node(Names[n], [j \in 1..d |-> (n - 1) * d + j])]

DofConnections(d) ==
    <<Connection(DofNodes(d), <<"A", "B", "C">>, "STRING", 1),
      Connection(DofNodes(d), <<"A", "C">>, "BAR", 2)>>

\* the sequences without repetition of k elements of S
RECURSIVE Arrangements(_, _)
Arrangements(S, k) ==
    IF k = 0 THEN {<<>>}
    ELSE UNION {{<<e>> \o t : t \in Arrangements(S \ {e}, k - 1)} : e \in S}

\* every pin map over the nodes: any nodes, in any order, any axes of each
PinMaps(d) ==
    UNION {
        UNION {{[i \in 1..k |-> Pin(order[i], bs[i])] : bs \in [1..k -> [1..d -> BOOLEAN]]}
               : order \in Arrangements(Range(Names), k)}
        : k \in 0..3}

\* the linked pairs, in either unpacking order
Pairs == {p \in Range(Names) \X Range(Names) : p[1] # p[2]}

\* every seam of at most MaxPairs linked pairs, no two joining the same nodes
Seams ==
    {ps \in SeqsUpTo(Pairs, MaxPairs) :
        \A i, j \in 1..Len(ps) : i # j => {ps[i][1], ps[i][2]} # {ps[j][1], ps[j][2]}}

\* flat structures with and without a cylinder, and a spatial one
DofConfigs ==
    ({2} \X PinMaps(2) \X ({NoSurface} \cup {Cylinder(1, ps) : ps \in Seams \ {<<>>}}))
        \cup ({3} \X PinMaps(3) \X {NoSurface})

InitDof ==
    /\ \E cfg \in DofConfigs :
          Construct(DofNodes(cfg[1]), DofConnections(cfg[1]), cfg[2], <<>>, cfg[3])
    /\ NoCall

\* N = np.array([node.position for node in nodes])
PositionArray == [n \in 1..Len(nodes) |-> nodes[n].position]

\* _create_initial_guess(), then _get_nodes_from_input and _objective on it, and
\* the length, energy, length derivative and energy derivative of every
\* connection on the nodes' positions
Evaluate ==
    /\ ~calc.done
    /\ lastOp' = "evaluate"
    /\ calc' = [done |-> TRUE,
                x0 |-> _create_initial_guess,
                lengths |-> [c \in 1..Len(connections) |->
                    [connection |->
                        current_length(nodes, connections[c],
                            IF surface.present THEN surface.linked_nodes ELSE <<>>),
                     solver |-> _connection_length(connections[c], PositionArray)]],
                energy |-> [c \in 1..Len(connections) |->
                    _spring_connection_energy(connections[c], PositionArray)],
                dl |-> [c \in 1..Len(connections) |->
                    _length_derivative(connections[c], PositionArray)],
                derivative |-> [c \in 1..Len(connections) |->
                    _spring_connection_energy_derivative(connections[c], PositionArray)],
                expansion |-> _get_nodes_from_input(_create_initial_guess),
                objective |-> _objective(_create_initial_guess)]
    /\ UNCHANGED <<nodes, connections, pins, controls, control_starting_lengths,
                   surface, tdim, dim, forces, args, raised, ret, stdout, rootCalls>>

NextDof == Evaluate

SpecDof == InitDof /\ [][NextDof]_vars

\* ------------------------------------------------------------------------
\* The solver's internal functions on stretched, slack and degenerate chains
\* ------------------------------------------------------------------------
\* a connection whose rest length is given (the initial_length argument, or
\* an assignment to connection.initial_length)
ConnectionWith(ns, chain, connection_type, stiffness, initial_length) ==
    [Connection(ns, chain, connection_type, stiffness)
        EXCEPT !.initial_length = initial_length]

\* a 3-4-5 triangle, and the same with A and B at one point
WorkNodes ==
    { <<Node("A", <<0, 0>>), Node("B", <<3, 0>>), Node("C", <<3, 4>>)>>,
      <<Node("A", <<0, 0>>), Node("B", <<0, 0>>), Node("C", <<3, 4>>)>> }

TypeVals == {"STRING", "BAR"}

StiffnessVals == {-1, 0, 2}

\* the rest length minus the current length
OffsetVals == {-1, 0, 1}

\* pin maps in node order
WorkPins ==
    { <<>>,
      <<Pin("A", <<TRUE, FALSE>>)>>,
      <<Pin("A", <<TRUE, FALSE>>), Pin("C", <<FALSE, TRUE>>)>> }

WorkSurfaces ==
    { NoSurface,
      Cylinder(1, << <<"B", "C">> >>),
      Cylinder(1, << <<"C", "B">> >>),
      Cylinder(1, << <<"A", "B">>, <<"C", "A">> >>) }

\* no external force, or a different one on every coordinate
WorkForces ==
    { <<>>,
      <<[node |-> "A", force |-> <<1, 2>>], [node |-> "B", force |-> <<3, 4>>],
        [node |-> "C", force |-> <<5, 6>>]>> }

\* the chain A, B, C of the given type, stiffness and rest length offset, and
\* a compressed bar from A to C
WorkConnections(ns, surf, connection_type, stiffness, offset) ==
    LET linked == IF surf.present THEN surf.linked_nodes ELSE <<>>
        chain == Connection(ns, <<"A", "B", "C">>, connection_type, stiffness)
        bar == Connection(ns, <<"A", "C">>, "BAR", 1)
    IN  <<ConnectionWith(ns, chain.nodes, connection_type, stiffness,
                         current_length(ns, chain, linked) + offset),
          ConnectionWith(ns, bar.nodes, "BAR", 1,
                         current_length(ns, bar, linked) + 1)>>

\* TensegritySolver.__init__ has no raise statement
SolverInitRaises(cs) == ""

\* Tensegrity(...), TensegritySolver(tensegrity) and set_forces(m)
InitWork ==
    /\ \E ns \in WorkNodes, surf \in WorkSurfaces, ps \in WorkPins,
          t \in TypeVals, k \in StiffnessVals, off \in OffsetVals :
          Construct(ns, WorkConnections(ns, surf, t, k, off), ps, <<>>, surf)
    /\ lastOp = "init"
    /\ raised = SolverInitRaises(connections)
    /\ ret = None
    /\ stdout = <<>>
    /\ rootCalls = <<>>
    /\ calc = NoCalc
    /\ args \in WorkForces

\* set_forces(m) with the mapping the structure was given
GiveForces ==
    /\ lastOp = "init"
    /\ lastOp' = "set_forces"
    /\ raised' = set_forces(args).err
    /\ forces' = set_forces(args).forces
    /\ UNCHANGED <<nodes, connections, pins, controls, control_starting_lengths,
                   surface, tdim, dim, args, ret, stdout, rootCalls, calc>>

NextWork ==
    \/ GiveForces
    \/ Evaluate

SpecWork == InitWork /\ [][NextWork]_vars

\* repeated solve() calls on a structure whose controls are left alone
InitSolve ==
    /\ \/ \E cfg \in SolveConfigs :
              Construct(InitNodes, InitConnections, cfg[1], InitControls, cfg[2])
       \/ \* nodes of three coordinates on a cylinder
          Construct(SpatialNodes, SpatialConnections, PinsAB, InitControls, Seam)
    /\ NoCall

NextSolve == Solve

SpecSolve == InitSolve /\ [][NextSolve]_vars

\* ------------------------------------------------------------------------
\* Properties
\* ------------------------------------------------------------------------
\* the force update_forces() would store for connection c in the current state
ForceLaw(ns, cs, surf, c) ==
    update_force(cs[c],
        current_length(ns, cs[c], IF surf.present THEN surf.linked_nodes ELSE <<>>))

\* some stored force is not the force law of the current positions and rest lengths
StaleForce == \E c \in 1..Len(connections) :
                  connections[c].force # ForceLaw(nodes, connections, surface, c)

\* some node is no longer where it was when the connections were constructed
Moved == \E c \in 1..Len(connections) : \E i \in 1..Len(connections[c].nodes) :
             PositionOf(nodes, connections[c].nodes[i])
                 # connections[c].nodes_original[i].position

\* solve() returned after both root-finder attempts failed
FailedTwice(op, exc, calls) ==
    /\ op = "solve"
    /\ exc = ""
    /\ Len(calls) = 2
    /\ calls[1].result = "failure"
    /\ calls[2].result = "failure"

\* C1: if both root-finder attempts of a solve() fail, every node position and
\* every connection (its force included) is what it was before the call.
C1_FailedSolveCommitsNothing ==
    [][FailedTwice(lastOp', raised', rootCalls')
        => (nodes' = nodes /\ connections' = connections)]_vars

\* a solve() failed twice on a structure an earlier solve() had moved and whose
\* rest lengths were changed since the forces were computed
C1_Witness ==
    /\ FailedTwice(lastOp, raised, rootCalls)
    /\ Moved
    /\ StaleForce

\* C2: each solve() runs the root-finder first on the guess built from the
\* current node positions; it runs it a second time exactly when the first run
\* did not converge, from that guess plus one noise value per component;
\* never more than twice.
C2_TwoAttemptProtocol ==
    [][(lastOp' = "solve" /\ raised' = "") =>
        /\ Len(rootCalls') \in {1, 2}
        /\ rootCalls'[1].x0 = _create_initial_guess
        /\ (Len(rootCalls') = 2) <=> (rootCalls'[1].result # "success")
        /\ Len(rootCalls') = 2 =>
              /\ Len(rootCalls'[2].x0) = Len(rootCalls'[1].x0)
              /\ \A i \in 1..Len(rootCalls'[1].x0) :
                    (rootCalls'[2].x0[i] - rootCalls'[1].x0[i]) \in NoiseVals]_vars

\* a solve() converged on the retry, whose guess differs from the first guess
\* in every component and not by the same amount
C2_Witness ==
    /\ lastOp = "solve"
    /\ Len(rootCalls) = 2
    /\ rootCalls[2].result = "success"
    /\ Len(rootCalls[1].x0) = 2
    /\ Moved
    /\ rootCalls[2].x0[1] - rootCalls[1].x0[1] # rootCalls[2].x0[2] - rootCalls[1].x0[2]

\* C3: when an attempt of solve() converges, every node's position is the
\* row of the expanded solution, and every connection's force is the force law
\* of the new positions and the connection's current rest length.
C3_SuccessCommitsAndRefreshes ==
    [][(lastOp' = "solve" /\ raised' = "" /\ Converged(rootCalls')) =>
        /\ \A i \in 1..Len(nodes) :
              nodes'[i].position =
                  _get_nodes_from_input(rootCalls'[Len(rootCalls')].x).N[i]
        /\ \A c \in 1..Len(connections) :
              /\ connections'[c].initial_length = connections[c].initial_length
              /\ connections'[c].force = ForceLaw(nodes', connections', surface', c)]_vars

\* a solve() converged on a structure whose control rest lengths differ from
\* their starting lengths, and moved a node
C3_Witness ==
    /\ lastOp = "solve"
    /\ Converged(rootCalls)
    /\ Moved
    /\ \E i \in 1..Len(controls) :
          connections[controls[i]].initial_length # control_starting_lengths[i]
    /\ \E c \in 1..Len(connections) : connections[c].force # 0

\* what solve() returns when it converged (it falls off its end, line 95)
SuccessReturn == None

\* C4 as stated: a solve() that failed twice returns something else than a
\* solve() that converged.
C4_FailureReturnDiffers ==
    FailedTwice(lastOp, raised, rootCalls) => ret # SuccessReturn

\* C4 amended: solve() raises nothing and returns None whether it converged or
\* failed twice; a solve() that failed twice ends its output with
\* "Optimization failed again.", which a converged solve() never prints.
C4_FailureOnlyPrinted ==
    (lastOp = "solve" /\ raised = "") =>
        /\ ret = None
        /\ Converged(rootCalls) \/ FailedTwice(lastOp, raised, rootCalls)
        /\ FailedTwice(lastOp, raised, rootCalls) <=>
              (stdout # <<>> /\ stdout[Len(stdout)] = "Optimization failed again.")
        /\ Converged(rootCalls) => "Optimization failed again." \notin Range(stdout)

\* a solve() failed twice and returned
C4_Witness ==
    /\ FailedTwice(lastOp, raised, rootCalls)
    /\ ret = None
    /\ Len(stdout) = 5

\* C5: after reset_control_lengths() every control's rest length is the one
\* it was constructed with, whatever changes and solves came before.
C5_ResetLaw ==
    lastOp = "reset_control_lengths" =>
        \A i \in 1..Len(controls) :
            connections[controls[i]].initial_length =
                InitConnections[InitControls[i]].initial_length

\* a reset after a change of the control lengths and a solve() that moved a
\* node: the stored forces are still those of the changed lengths
C5_Witness ==
    /\ lastOp = "reset_control_lengths"
    /\ Moved
    /\ \E i \in 1..Len(controls) :
          connections[controls[i]].force #
              ForceLaw(nodes, connections, surface, controls[i])

\* C6: change_control_lengths with one delta per control adds delta i to the
\* rest length of the i-th registered control and changes no other rest length.
C6_ChangeAddsDeltas ==
    [][(lastOp' = "change_control_lengths" /\ raised' = "") =>
        /\ Len(args') = Len(controls)
        /\ \A i \in 1..Len(controls) :
              connections'[controls[i]].initial_length =
                  connections[controls[i]].initial_length + args'[i]
        /\ \A c \in 1..Len(connections) :
              c \notin Range(controls) =>
                  connections'[c].initial_length = connections[c].initial_length]_vars

\* a change with two different non-zero deltas
C6_Witness ==
    /\ lastOp = "change_control_lengths"
    /\ raised = ""
    /\ args = <<1, -1>>
    /\ connections[controls[1]].initial_length = control_starting_lengths[1]
    /\ connections[controls[2]].initial_length = control_starting_lengths[2] - 1

\* C7: change_control_lengths with a number of deltas other than the number
\* of controls raises ValueError and changes no rest length.
C7_WrongCountRaises ==
    [][(lastOp' = "change_control_lengths" /\ Len(args') # Len(controls)) =>
        /\ raised' = "ValueError"
        /\ connections' = connections]_vars

\* a change with too few non-zero deltas raised
C7_Witness ==
    /\ lastOp = "change_control_lengths"
    /\ raised = "ValueError"
    /\ args = <<1>>

\* C8: change_control_lengths and reset_control_lengths leave every node
\* position and every stored force unchanged; a stored force changes only in
\* update_forces(): a direct call, or the end of a solve() that converged.
C8_OnlyUpdateForcesChangesForce ==
    [][/\ lastOp' \in {"change_control_lengths", "reset_control_lengths"} =>
            /\ nodes' = nodes
            /\ \A c \in 1..Len(connections) :
                  connections'[c].force = connections[c].force
       /\ (\E c \in 1..Len(connections) : connections'[c].force # connections[c].force)
            => \/ lastOp' = "update_forces"
               \/ lastOp' = "solve" /\ Converged(rootCalls')]_vars

\* a change of the control lengths left a force that is no longer the force law
\* of the current rest lengths
C8_Witness ==
    /\ lastOp = "change_control_lengths"
    /\ raised = ""
    /\ StaleForce

\* the number of pinned coordinate axes
PinnedAxes == Cardinality(PinnedIndices)

\* C9 as stated: with a surface, the virtual-work rows left after elimination
\* plus the appended constraint values number dim*|nodes| minus the pinned
\* axes, as many as there are unknowns.
C9_ResidualIsSquare ==
    (calc.done /\ surface.present /\ calc.objective.err = "") =>
        /\ Len(calc.objective.rows) + Len(calc.objective.constraints)
              = dim * Len(nodes) - PinnedAxes
        /\ Len(calc.objective.v) = Len(calc.x0)

\* C10 as stated: for every pin map, in any order, expanding the initial
\* guess gives back every node's first dim coordinates.
C10_ExpansionInvertsGuess ==
    calc.done =>
        /\ calc.expansion.err = ""
        /\ Len(calc.expansion.N) = Len(nodes)
        /\ \A n \in 1..Len(nodes) :
              calc.expansion.N[n] = SubSeq(nodes[n].position, 1, dim)

\* C11 as stated: a solve(), however it ends, leaves every coordinate the pin
\* map marks fixed at the value it had before the call.
C11_PinnedAxisKept ==
    [][lastOp' = "solve" =>
        \A p \in 1..Len(pins) : \A i \in 1..dim :
            pins[p].bools[i] =>
                PositionOf(nodes', pins[p].node)[i] = PositionOf(nodes, pins[p].node)[i]]_vars

\* the length update_forces() computes for connection c in the current state
CurrentLength(c) ==
    current_length(nodes, connections[c],
        IF surface.present THEN surface.linked_nodes ELSE <<>>)

\* update_forces() was the last thing to run: at construction, called directly,
\* or at the end of a solve() that converged
ForcesJustUpdated ==
    \/ lastOp \in {"init", "update_forces"}
    \/ lastOp = "solve" /\ raised = "" /\ Converged(rootCalls)

\* C12: the stored force of a STRING is never negative, and in the state
\* update_forces() leaves it is 0 for every STRING whose current length is less
\* than its rest length.
C12_StringForceNotNegative ==
    \A c \in 1..Len(connections) :
        connections[c].connection_type = "STRING" =>
            /\ connections[c].force >= 0
            /\ (ForcesJustUpdated /\ CurrentLength(c) < connections[c].initial_length)
                  => connections[c].force = 0

\* update_forces() ran after a control string was lengthened: the string is
\* shorter than its rest length and its force is 0
C12_Witness ==
    /\ lastOp = "update_forces"
    /\ \E i \in 1..Len(controls) :
          /\ connections[controls[i]].connection_type = "STRING"
          /\ connections[controls[i]].initial_length > control_starting_lengths[i]
          /\ CurrentLength(controls[i]) < connections[controls[i]].initial_length
          /\ connections[controls[i]].force = 0

\* C13: in the state update_forces() leaves, the stored force of a BAR is
\* stiffness * (current length - rest length), negative when the bar is shorter
\* than its rest length.
C13_BarForceSigned ==
    ForcesJustUpdated =>
        \A c \in 1..Len(connections) :
            connections[c].connection_type = "BAR" =>
                connections[c].force =
                    connections[c].stiffness
                        * (CurrentLength(c) - connections[c].initial_length)

\* update_forces() stored a negative force in a bar shorter than its rest length
C13_Witness ==
    /\ lastOp = "update_forces"
    /\ \E c \in 1..Len(connections) :
          /\ connections[c].connection_type = "BAR"
          /\ CurrentLength(c) < connections[c].initial_length
          /\ connections[c].force < 0

\* the two nodes are a registered linked pair, in either order
SegmentLinked(n1, n2) ==
    /\ surface.present
    /\ \E k \in 1..Len(surface.linked_nodes) :
          surface.linked_nodes[k] \in {<<n1, n2>>, <<n2, n1>>}

\* the sum of the distances between the consecutive nodes of the chain of
\* connection c, 0 for a segment that joins a linked pair
ChainLengthLaw(c) ==
    SumSeq([i \in 1..(Len(connections[c].nodes) - 1) |->
        IF SegmentLinked(connections[c].nodes[i], connections[c].nodes[i + 1])
        THEN 0
        ELSE Norm(PositionOf(nodes, connections[c].nodes[i]),
                  PositionOf(nodes, connections[c].nodes[i + 1]))])

\* C14: Connection.current_length(linked_nodes) and the solver's
\* _connection_length on the same positions both give the sum of the segment
\* distances with 0 for every segment that joins a linked pair, in either order.
C14_ChainLength ==
    calc.done =>
        \A c \in 1..Len(connections) :
            /\ calc.lengths[c].connection = ChainLengthLaw(c)
            /\ calc.lengths[c].solver = ChainLengthLaw(c)

\* the chain A, B, C on a cylinder whose seam registers the pair as (C, B): its
\* length is the distance from A to B alone
C14_Witness ==
    /\ calc.done
    /\ surface.present
    /\ surface.linked_nodes = << <<"C", "B">> >>
    /\ connections[1].nodes = <<"A", "B", "C">>
    /\ calc.lengths[1].solver = Norm(PositionOf(nodes, "A"), PositionOf(nodes, "B"))
    /\ calc.lengths[1].connection = calc.lengths[1].solver
    /\ calc.lengths[1].solver > 0
    /\ Norm(PositionOf(nodes, "B"), PositionOf(nodes, "C")) > 0

\* C15: in the state a direct update_forces() call leaves, calling
\* update_forces() again stores in every connection the force it already has.
C15_UpdateForcesIdempotent ==
    lastOp = "update_forces" =>
        \A c \in 1..Len(connections) :
            update_forces(nodes, connections, surface)[c].force = connections[c].force

\* update_forces() ran on a moved structure with a changed control length and
\* stored a non-zero force
C15_Witness ==
    /\ lastOp = "update_forces"
    /\ Moved
    /\ \E i \in 1..Len(controls) :
          /\ connections[controls[i]].initial_length # control_starting_lengths[i]
          /\ connections[controls[i]].force # 0

\* the entry of the mapping m for the node called name, 0 if there is none
EntryOf(m, name) ==
    IF \E e \in 1..Len(m) : m[e].node = name
    THEN CHOOSE e \in 1..Len(m) : m[e].node = name
    ELSE 0

\* C16: the external force vector always has dim*|nodes| entries; after a
\* set_forces(m) that returned, the entries of a node m names are m's vector
\* for it and the entries of every other node are 0.
C16_SetForcesReplaces ==
    /\ Len(forces) = dim * Len(nodes)
    /\ (lastOp = "set_forces" /\ raised = "") =>
          \A n \in 1..Len(nodes) : \A i \in 1..dim :
              forces[(n - 1) * dim + i] =
                  IF EntryOf(args, nodes[n].name) = 0 THEN 0
                  ELSE args[EntryOf(args, nodes[n].name)].force[i]

\* set_forces named only C on a structure a solve() had moved: the entries of
\* C are set, all others are 0
C16_Witness ==
    /\ lastOp = "set_forces"
    /\ raised = ""
    /\ Moved
    /\ Len(args) = 1
    /\ args[1].node = "C"
    /\ forces[node_indices("C") * dim + 1] # 0
    /\ \A k \in 1..(node_indices("C") * dim) : forces[k] = 0

\* the solver's dim as the claim gives it
DimOf(td) == IF td \in {"2", "2.5"} THEN 2 ELSE 3

\* C17: set_forces(m) raises ValueError whenever some force of m has a number
\* of components other than 2 on a 2- or 2.5-dimensional structure, 3 on a
\* 3-dimensional one, wherever that entry is in m.
C17_WrongDimensionRaises ==
    (lastOp = "set_forces"
        /\ \E e \in 1..Len(args) : Len(args[e].force) # DimOf(tdim))
    => raised = "ValueError"

\* set_forces raised on a mapping whose second entry is the one of the wrong
\* dimension, on the 3-dimensional structure
C17_Witness ==
    /\ lastOp = "set_forces"
    /\ raised = "ValueError"
    /\ tdim = "3"
    /\ Len(args) = 2
    /\ Len(args[1].force) = 3
    /\ Len(args[2].force) = 2

\* some node of a connection was constructed with a 2-component position
SomeNodeFlat ==
    \E c \in 1..Len(connections) : \E i \in 1..Len(connections[c].nodes_original) :
        Len(connections[c].nodes_original[i].position) = 2

\* C18: in every state the Tensegrity's dim is what the construction inferred:
\* 2.5 with a surface, else 2 if some node was constructed with two
\* components, else 3.
C18_DimInferredAndFixed ==
    tdim = IF surface.present THEN "2.5"
           ELSE IF SomeNodeFlat THEN "2"
           ELSE "3"

\* the structure on the cylinder after a solve() moved it, a set_forces, a
\* change of the control lengths and an update_forces()
C18_Witness ==
    /\ tdim = "2.5"
    /\ Moved
    /\ lastOp = "update_forces"
    /\ \E k \in 1..Len(forces) : forces[k] # 0
    /\ \E i \in 1..Len(controls) :
          connections[controls[i]].initial_length # control_starting_lengths[i]

\* C19 as stated: every node's position has the number of components it was
\* constructed with.
C19_NodeDimensionKept ==
    \A c \in 1..Len(connections) : \A i \in 1..Len(connections[c].nodes) :
        Len(PositionOf(nodes, connections[c].nodes[i]))
            = Len(connections[c].nodes_original[i].position)

\* the nodes the structure was constructed from
ConstructedNodes == IF tdim = "3" THEN SpatialNodes ELSE InitNodes

\* C20: every node of every connection's nodes_original has the name and the
\* position the node of the chain had when the connection was constructed.
C20_SnapshotKept ==
    \A c \in 1..Len(connections) :
        /\ Len(connections[c].nodes_original) = Len(connections[c].nodes)
        /\ \A i \in 1..Len(connections[c].nodes) :
              /\ connections[c].nodes_original[i].name = connections[c].nodes[i]
              /\ connections[c].nodes_original[i].position
                    = PositionOf(ConstructedNodes, connections[c].nodes[i])

\* a reset of the control lengths after a solve() moved the live nodes away
\* from the snapshot and the forces were refreshed
C20_Witness ==
    /\ Moved
    /\ lastOp = "reset_control_lengths"
    /\ \E c \in 1..Len(connections) : connections[c].force # 0
    /\ ~StaleForce

\* ------------------------------------------------------------------------
\* The rest configuration, the energy law and the virtual work
\* ------------------------------------------------------------------------
\* no external force, every connection at its rest length, and every linked
\* pair on the surface
AtRest ==
    /\ \A k \in 1..Len(forces) : forces[k] = 0
    /\ \A c \in 1..Len(connections) : CurrentLength(c) = connections[c].initial_length
    /\ surface.present =>
          \A k \in 1..Len(_surface_constraints(PositionArray)) :
              _surface_constraints(PositionArray)[k] = 0

\* C21: at a rest configuration (no external force, every connection at its
\* rest length, linked pairs on the surface) the residual at the initial guess
\* is evaluated without an exception and every entry of it is zero.
C21_RestResidualZero ==
    (calc.done /\ AtRest) =>
        /\ calc.objective.err = ""
        /\ \A k \in 1..Len(calc.objective.v) : calc.objective.v[k] = 0

\* the connection is a string shorter than its rest length
Slack(c) ==
    /\ connections[c].connection_type = "STRING"
    /\ calc.lengths[c].solver < connections[c].initial_length

\* the stretch L - L0 of the connection
Stretch(c) == calc.lengths[c].solver - connections[c].initial_length

AllZero(v) == \A k \in 1..Len(v) : v[k] = 0

\* C22: twice the stored energy of a connection is k*(L-L0)^2, except that a
\* string shorter than its rest length stores 0 whatever its stiffness; such a
\* string contributes the all-zero vector to the virtual work, and a bar
\* contributes -k*(L-L0)*dL/dq whether stretched or compressed.
C22_EnergyLaw ==
    calc.done =>
        \A c \in 1..Len(connections) :
            /\ calc.energy[c] =
                  IF Slack(c) THEN 0
                  ELSE connections[c].stiffness * Stretch(c) * Stretch(c)
            /\ Slack(c) => AllZero(calc.derivative[c])
            /\ connections[c].connection_type = "BAR" =>
                  \A k \in 1..Len(calc.derivative[c]) :
                      calc.derivative[c][k] =
                          -connections[c].stiffness * Stretch(c) * calc.dl[c][k]

\* a stiff slack string beside a compressed bar: the string stores nothing and
\* contributes nothing although its length derivative is not zero, the bar
\* stores energy and contributes
C22_Witness ==
    /\ calc.done
    /\ Slack(1) /\ connections[1].stiffness > 0
    /\ ~AllZero(calc.dl[1])
    /\ calc.energy[1] = 0 /\ AllZero(calc.derivative[1])
    /\ connections[2].connection_type = "BAR" /\ Stretch(2) < 0
    /\ calc.energy[2] > 0 /\ ~AllZero(calc.derivative[2])

\* C23: a solver constructed over a structure that has a connection of
\* negative stiffness has raised ValueError.
C23_NegativeStiffnessRaises ==
    (\E c \in 1..Len(connections) : connections[c].stiffness < 0) =>
        raised = "ValueError"

\* the 0-based row of a node's coordinate on an axis (0 for x, 1 for y)
Row(name, axis) == node_indices(name) * dim + axis

\* one linked pair on one axis, as the coupling is described: w is the
\* virtual work with the set of removed rows
PairOnAxis(w, pair, axis) ==
    LET row1 == Row(pair[1], axis)
        row2 == Row(pair[2], axis)
    IN  CASE row1 \in w.del -> [vw |-> w.vw, del |-> w.del \cup {row2}]
          [] row1 \notin w.del /\ row2 \in w.del -> [vw |-> w.vw, del |-> w.del \cup {row1}]
          [] OTHER ->
               [vw |-> [k \in 1..Len(w.vw) |->
                          IF k = row1 + 1 THEN w.vw[row1 + 1] + w.vw[row2 + 1] ELSE w.vw[k]],
                del |-> w.del \cup {row2}]

\* the rows of the pinned coordinates
PinnedRows ==
    {r \in 0..(dim * Len(nodes) - 1) :
        \E p \in 1..Len(pins), a \in 0..(dim - 1) :
            pins[p].bools[a + 1] /\ r = Row(pins[p].node, a)}

\* the virtual work and the removed rows after the first n linked pairs
RECURSIVE AfterPairs(_)
AfterPairs(n) ==
    IF n = 0 THEN [vw |-> calc.objective.work, del |-> PinnedRows]
    ELSE PairOnAxis(PairOnAxis(AfterPairs(n - 1), surface.linked_nodes[n], 0),
                    surface.linked_nodes[n], 1)

\* the entries of v on the rows that are not removed, in row order
RECURSIVE Surviving(_, _, _)
Surviving(v, del, k) ==
    IF k > Len(v) THEN <<>>
    ELSE (IF (k - 1) \in del THEN <<>> ELSE <<v[k]>>) \o Surviving(v, del, k + 1)

\* C24: the objective treats the linked pairs in list order and, for each, the
\* axes x and y: a removed row of node1 removes node2's row, else a removed row
\* of node2 removes node1's row, else node2's row is added into node1's row and
\* removed; the rows of the residual are the rows left. For a single pair with
\* no pin, node1's rows survive holding the sum of both nodes' virtual work.
C24_SurfaceCoupling ==
    (calc.done /\ surface.present) =>
        LET after == AfterPairs(Len(surface.linked_nodes))
        IN  /\ calc.objective.coupled = after.vw
            /\ calc.objective.del = after.del
            /\ calc.objective.rows = Surviving(after.vw, after.del, 1)
            /\ (Len(surface.linked_nodes) = 1 /\ pins = <<>>) =>
                  \A axis \in 0..1 :
                      LET row1 == Row(surface.linked_nodes[1][1], axis)
                          row2 == Row(surface.linked_nodes[1][2], axis)
                      IN  /\ row1 \notin calc.objective.del
                          /\ row2 \in calc.objective.del
                          /\ calc.objective.coupled[row1 + 1] =
                                calc.objective.work[row1 + 1] + calc.objective.work[row2 + 1]

\* pairs (A, B) and (C, A) with A's x pinned and external forces given: B's x
\* row goes with A's, C's x row goes with A's, B's y is added into A's y and
\* that sum into C's y, the one row left
C24_Witness ==
    /\ calc.done /\ lastOp = "evaluate"
    /\ surface.present /\ surface.linked_nodes = << <<"A", "B">>, <<"C", "A">> >>
    /\ pins = <<Pin("A", <<TRUE, FALSE>>)>>
    /\ \E k \in 1..Len(forces) : forces[k] # 0
    /\ calc.objective.del = {0, 1, 2, 3, 4}
    /\ calc.objective.work[2] # 0 /\ calc.objective.work[4] # 0
    /\ calc.objective.rows =
          <<calc.objective.work[6] + calc.objective.work[2] + calc.objective.work[4]>>

\* segment i of the chain of connection c has length zero: its endpoints are
\* at one point, or they form a linked pair
ZeroSegment(c, i) ==
    \/ PositionOf(nodes, connections[c].nodes[i])
          = PositionOf(nodes, connections[c].nodes[i + 1])
    \/ SegmentLinked(connections[c].nodes[i], connections[c].nodes[i + 1])

\* what segment i of the chain of connection c adds to the entry of node n on
\* axis j, in tenths
SegmentShare(c, i, n, j) ==
    LET P1 == PositionOf(nodes, connections[c].nodes[i])
        P2 == PositionOf(nodes, connections[c].nodes[i + 1])
    IN  IF ZeroSegment(c, i) THEN 0
        ELSE (IF connections[c].nodes[i] = nodes[n].name
              THEN Quot(10 * (P1[j] - P2[j]), Norm(P1, P2)) ELSE 0)
           + (IF connections[c].nodes[i + 1] = nodes[n].name
              THEN Quot(10 * (P2[j] - P1[j]), Norm(P1, P2)) ELSE 0)

\* C25: every entry of the length derivative is the sum, over the segments of
\* the chain that touch its node, of (N1-N2)/length for node1 and (N2-N1)/length
\* for node2, where a segment of length zero (endpoints at one point, or a
\* linked pair) adds nothing and is never divided by.
C25_ZeroLengthGuard ==
    calc.done =>
        \A c \in 1..Len(connections) : \A n \in 1..Len(nodes) : \A j \in 1..dim :
            calc.dl[c][(n - 1) * dim + j] =
                SumSeq([i \in 1..(Len(connections[c].nodes) - 1) |->
                           SegmentShare(c, i, n, j)])

\* A and B at one point and B, C a linked pair that are apart: the chain
\* A, B, C has an all-zero length derivative, the bar from A to C has not
C25_Witness ==
    /\ calc.done
    /\ nodes[1].position = nodes[2].position
    /\ nodes[2].position # nodes[3].position
    /\ SegmentLinked("B", "C")
    /\ connections[1].nodes = <<"A", "B", "C">>
    /\ AllZero(calc.dl[1])
    /\ ~AllZero(calc.dl[2])

\* C26: a solve(), whether it converged, failed or raised, leaves the rest
\* length and stiffness of every connection, the pin map, the controls, the
\* control starting lengths, the external force vector and the names and order
\* of the nodes as they were.
C26_SolveFrame ==
    [][lastOp' = "solve" =>
        /\ Len(connections') = Len(connections)
        /\ \A c \in 1..Len(connections) :
              /\ connections'[c].initial_length = connections[c].initial_length
              /\ connections'[c].stiffness = connections[c].stiffness
        /\ pins' = pins
        /\ controls' = controls
        /\ control_starting_lengths' = control_starting_lengths
        /\ forces' = forces
        /\ Len(nodes') = Len(nodes)
        /\ \A i \in 1..Len(nodes) : nodes'[i].name = nodes[i].name]_vars

\* a solve() converged and moved a node of a pinned structure that carries an
\* external force and whose control rest lengths had been changed
C26_Witness ==
    /\ lastOp = "solve"
    /\ Converged(rootCalls)
    /\ Moved
    /\ pins # <<>>
    /\ \E k \in 1..Len(forces) : forces[k] # 0
    /\ \E i \in 1..Len(controls) :
          connections[controls[i]].initial_length # control_starting_lengths[i]
    /\ \A i \in 1..Len(nodes) : nodes[i].name = Names[i]

\* the force of the stored force law at the length the solver computes
LawForce(c) ==
    IF connections[c].connection_type = "STRING" /\ Stretch(c) < 0 THEN 0
    ELSE connections[c].stiffness * Stretch(c)

\* C27: for a connection of non-negative stiffness, the virtual-work
\* contribution is dL/dq times the negative of the force update_force stores
\* for the same length: k*(L-L0) for a bar and for a string with L >= L0, 0 for
\* a string with L < L0.
C27_CoefficientIsMinusForce ==
    calc.done =>
        \A c \in 1..Len(connections) :
            connections[c].stiffness >= 0 =>
                /\ update_force(connections[c], calc.lengths[c].solver) = LawForce(c)
                /\ connections[c].force = LawForce(c)
                /\ \A k \in 1..Len(calc.derivative[c]) :
                      calc.derivative[c][k] =
                          -update_force(connections[c], calc.lengths[c].solver)
                              * calc.dl[c][k]

\* a stiff string in tension beside a compressed bar: both forces are stored,
\* one positive and one negative, and both contributions are not zero
C27_Witness ==
    /\ calc.done
    /\ connections[1].connection_type = "STRING"
    /\ connections[1].stiffness > 0 /\ Stretch(1) > 0
    /\ connections[1].force > 0 /\ ~AllZero(calc.derivative[1])
    /\ connections[2].connection_type = "BAR"
    /\ connections[2].stiffness > 0 /\ Stretch(2) < 0
    /\ connections[2].force < 0 /\ ~AllZero(calc.derivative[2])

====
